---- MODULE Spec2Model ----
(***************************************************************************)
(* The TLS reconciler of the OpenSearch operator                           *)
(* (opensearch-operator/controllers/tlsController.go) as a state machine.  *)
(* A reconciliation pass is TlsReconciler.Reconcile; it is cut into steps  *)
(* at its calls of the Kubernetes client (r.Get, r.Create), which is where *)
(* another pass over the same cluster can interleave.  The dashboard       *)
(* reconciler (dashboardController.go) is a second machine over the same   *)
(* API server.                                                             *)
(***************************************************************************)
EXTENDS Naturals, Sequences, FiniteSets, TLC

VARIABLES
    instance,   \* r.Instance: the OpenSearchCluster resource (fixed in a behaviour)
    store,      \* the secrets of the API server: object key -> Secret.Data
    serial,     \* number of key pairs generated so far (each one is fresh)
    pass,       \* per pass: the locals of Reconcile / HandleInterface
    created,    \* history: object key -> number of successful r.Create calls
    lastDone,   \* history: <<>> or <<context at start, context at end>> of the
                \*          latest pass that returned nil
    dash,       \* the locals of DashboardReconciler.Reconcile
    faults      \* number of transient errors met so far (counted only where
                \* the errors are required to be transient, see SpecTransient)

vars == <<instance, store, serial, pass, created, lastDone, dash, faults>>

(***************************************************************************)
(* Bounds of the model.                                                    *)
(***************************************************************************)
\* key pairs (CAs and node certificates) that can be generated in a behaviour
MaxSerial == 4

\* transient errors in a behaviour of SpecTransient: each of them can waste one
\* key pair, and a cluster needs three (the CA and two node certificates)
MaxFaults == MaxSerial - 3

\* the passes that may run over the one cluster, possibly interleaved
Passes == {"p1", "p2"}

ClusterNames == {"demo"}

\* the namespace of the OpenSearchCluster resource itself (metadata.namespace)
InstanceNamespaces == {"demo", "default"}

(***************************************************************************)
(* The policy: r.Instance.Spec.Security (api/v1).  A nil pointer is the    *)
(* empty sequence, a set pointer a sequence of one element.                *)
(***************************************************************************)
\* *string of TlsSecret.Key
SecretKeys == {<<>>, <<"custom.pem">>}

\* *TlsSecret of TlsInterfaceConfig.CaSecret / CertSecret / KeySecret
TlsSecrets(secretName) ==
    {<<>>} \cup {<<[secretName |-> secretName, key |-> k]>> : k \in SecretKeys}

GeneratedInterface ==
    [generate |-> TRUE, caSecret |-> <<>>, certSecret |-> <<>>, keySecret |-> <<>>]

ExternalInterfaces ==
    {[generate |-> FALSE, caSecret |-> c, certSecret |-> s, keySecret |-> k] :
        c \in TlsSecrets("byo-ca"), s \in TlsSecrets("byo-certs"),
        k \in TlsSecrets("byo-certs")}

\* *TlsInterfaceConfig of TlsConfig.Transport / TlsConfig.Http
TlsInterfaceConfigs ==
    {<<>>} \cup {<<GeneratedInterface>>} \cup {<<e>> : e \in ExternalInterfaces}

\* TlsConfig.NodesDn
NodesDnLists == {<<>>, <<"CN=admin">>}

TlsConfigs ==
    [transport : TlsInterfaceConfigs, http : TlsInterfaceConfigs, nodesDn : NodesDnLists]

\* *Security of ClusterSpec.Security, with its *TlsConfig
Securities ==
    {<<>>} \cup {<<[tls |-> <<>>]>>} \cup {<<[tls |-> <<t>>]>> : t \in TlsConfigs}

\* Spec.General.ServiceName
ServiceNames == {"demo-svc"}

Instances ==
    [clusterName : ClusterNames, namespace : InstanceNamespaces,
     serviceName : ServiceNames, security : Securities]

(***************************************************************************)
(* Certificates (opensearch.opster.io/pkg/tls).  A key pair is known by    *)
(* its serial; a certificate names the serial of the key that signed it.   *)
(***************************************************************************)
\* var ca tls.Cert: the zero value
NoCert == [cn |-> "", serial |-> 0, issuer |-> 0, dnsNames |-> <<>>]

\* tls.GenerateCA(clusterName): a self-signed CA with a fresh key pair s
GenerateCA(clusterName, s) ==
    [cn |-> clusterName, serial |-> s, issuer |-> s, dnsNames |-> <<>>]

\* ca.CreateAndSignCertificate(clusterName, dnsNames), with a fresh key pair s
CreateAndSignCertificate(ca, commonName, dnsNames, s) ==
    [cn |-> commonName, serial |-> s, issuer |-> ca.serial, dnsNames |-> dnsNames]

\* the PEM blocks a secret holds
PemCert(c) == <<"CERTIFICATE", c.cn, c.serial, c.issuer, c.dnsNames>>
PemKey(c) == <<"PRIVATE KEY", c.serial>>
ParseCert(pem) == [cn |-> pem[2], serial |-> pem[3], issuer |-> pem[4], dnsNames |-> pem[5]]

\* ca.SecretDataCA()
SecretDataCA(ca) == ("ca.crt" :> PemCert(ca)) @@ ("ca.key" :> PemKey(ca))

\* tls.CAFromSecret(caSecret.Data)
CAFromSecret(data) == ParseCert(data["ca.crt"])

\* nodeCert.SecretData(&ca)
SecretData(nodeCert, ca) ==
    ("ca.crt" :> PemCert(ca)) @@ ("tls.crt" :> PemCert(nodeCert))
        @@ ("tls.key" :> PemKey(nodeCert))

(***************************************************************************)
(* ControllerContext: the volumes, mounts and opensearch.yml entries the   *)
(* cluster controller is handed.                                           *)
(***************************************************************************)
\* written is history: the keys in the order of the AddConfig calls
EmptyContext ==
    [volumes |-> <<>>, volumeMounts |-> <<>>, config |-> <<>>, written |-> <<>>]

\* the context a pass is handed: created empty when the pass starts
InitialContexts == {EmptyContext}

\* controllerContext.AddConfig(key, value): a map, the last write wins
AddConfig(controllerContext, key, value) ==
    [controllerContext EXCEPT !.config = (key :> value) @@ @,
                              !.written = Append(@, key)]

HasConfig(controllerContext, key) == key \in DOMAIN controllerContext.config

ConfigDir == "/usr/share/opensearch/config/"

\* strings.Join(elems, sep)
RECURSIVE Join(_, _)
Join(elems, sep) ==
    IF elems = <<>> THEN ""
    ELSE IF Len(elems) = 1 THEN elems[1]
    ELSE elems[1] \o sep \o Join(Tail(elems), sep)

(***************************************************************************)
(* The locals of one pass.  pc is the place the pass has reached:          *)
(*   NotStarted, GetCA (line 62), CreateCA (line 70), GetNode (line 80),   *)
(*   CreateNode (line 94), Done (returned nil), Aborted (returned err).    *)
(* calls, ctx0, store0 and prev are history: the client calls and key      *)
(* generations of the pass, and what the pass found when it started.       *)
(***************************************************************************)
NewPass(controllerContext) ==
    [pc |-> "NotStarted", name |-> "", controllerContext |-> controllerContext,
     nodesDn |-> <<>>, ca |-> NoCert, nodeCert |-> NoCert, err |-> "",
     calls |-> <<>>, ctx0 |-> controllerContext, store0 |-> store, prev |-> lastDone]

Tls == instance.security[1].tls[1]

\* namespace := r.Instance.Spec.General.ClusterName (line 52)
namespace == instance.clusterName
clusterName == instance.clusterName

ObjectKey(name, ns) == [name |-> name, namespace |-> ns]

\* ca_secret_name, node_secret_name (lines 54-55) as the keys of r.Get / r.Create
CaKey == ObjectKey(clusterName \o "-ca", namespace)
NodeKey(name) == ObjectKey(clusterName \o "-" \o name \o "-cert", namespace)

\* faulty variant: the service name lacks its .svc suffix
DnsNamesWithoutSvc ==
    <<clusterName,
      clusterName \o "." \o namespace,
      clusterName \o "." \o namespace,
      clusterName \o "." \o namespace \o ".svc.cluster.local">>

\* dnsNames (lines 82-87)
DnsNames ==
    <<clusterName,
      clusterName \o "." \o namespace,
      clusterName \o "." \o namespace \o ".svc",
      clusterName \o "." \o namespace \o ".svc.cluster.local">>

Called(L, op, key, res) ==
    [L EXCEPT !.calls = Append(@, [op |-> op, name |-> L.name, key |-> key, res |-> res])]

\* faulty variant: the key of the reference names the mounted file as well
mountAtKey(interfaceName, name, filename, secret, controllerContext) ==
    LET volume == [name |-> interfaceName \o "-" \o name, secretName |-> secret.secretName]
        secretKey == IF secret.key # <<>> THEN secret.key[1] ELSE filename
        vmount == [name |-> interfaceName \o "-" \o name,
                   mountPath |-> ConfigDir \o "tls-" \o interfaceName \o "/" \o secretKey,
                   subPath |-> secretKey]
    IN  [controllerContext EXCEPT !.volumes = Append(@, volume),
                                  !.volumeMounts = Append(@, vmount)]

\* mount(interfaceName, name, filename, secret, controllerContext), lines 132-141
mount(interfaceName, name, filename, secret, controllerContext) ==
    LET volume == [name |-> interfaceName \o "-" \o name, secretName |-> secret.secretName]
        secretKey == IF secret.key # <<>> THEN secret.key[1] ELSE filename
        vmount == [name |-> interfaceName \o "-" \o name,
                   mountPath |-> ConfigDir \o "tls-" \o interfaceName \o "/" \o filename,
                   subPath |-> secretKey]
    IN  [controllerContext EXCEPT !.volumes = Append(@, volume),
                                  !.volumeMounts = Append(@, vmount)]

\* faulty variant: the DN is trusted for every generated interface (the test of
\* line 104 is missing)
MountGeneratedTrustsAll(L) ==
    LET volume == [name |-> L.name \o "-cert", secretName |-> NodeKey(L.name).name]
        vmount == [name |-> L.name \o "-cert",
                   mountPath |-> ConfigDir \o "tls-" \o L.name, subPath |-> ""]
    IN  [L EXCEPT !.controllerContext.volumes = Append(@, volume),
                  !.controllerContext.volumeMounts = Append(@, vmount),
                  !.nodesDn = Append(@, "CN=" \o clusterName)]

\* lines 99-106: the generated secret is mounted, the transport DN is trusted
MountGenerated(L) ==
    LET volume == [name |-> L.name \o "-cert", secretName |-> NodeKey(L.name).name]
        vmount == [name |-> L.name \o "-cert",
                   mountPath |-> ConfigDir \o "tls-" \o L.name, subPath |-> ""]
    IN  [L EXCEPT !.controllerContext.volumes = Append(@, volume),
                  !.controllerContext.volumeMounts = Append(@, vmount),
                  !.nodesDn = IF L.name = "transport"
                              THEN Append(@, "CN=" \o clusterName) ELSE @]

\* faulty variant: the CA file is taken from the key secret and the key file
\* from the CA secret
MountExternalSwapped(L, config) ==
    [L EXCEPT !.controllerContext =
        mount(L.name, "cert", "tls.crt", config.certSecret[1],
            mount(L.name, "key", "tls.key", config.caSecret[1],
                mount(L.name, "ca", "ca.crt", config.keySecret[1], @)))]

\* lines 108, 113-115: the three external secrets are mounted
MountExternal(L, config) ==
    [L EXCEPT !.controllerContext =
        mount(L.name, "cert", "tls.crt", config.certSecret[1],
            mount(L.name, "key", "tls.key", config.keySecret[1],
                mount(L.name, "ca", "ca.crt", config.caSecret[1], @)))]

\* faulty variant: the http branch was copied from the transport branch and two
\* of its paths still point into tls-transport
ExtendConfigCopiedPaths(L) ==
    LET c == L.controllerContext IN
    [L EXCEPT !.controllerContext =
        IF L.name = "transport" THEN
            AddConfig(AddConfig(AddConfig(AddConfig(c,
                "plugins.security.ssl.transport.pemcert_filepath", "tls-transport/tls.crt"),
                "plugins.security.ssl.transport.pemkey_filepath", "tls-transport/tls.key"),
                "plugins.security.ssl.transport.pemtrustedcas_filepath", "tls-transport/ca.crt"),
                "plugins.security.ssl.transport.enforce_hostname_verification", "false")
        ELSE IF L.name = "http" THEN
            AddConfig(AddConfig(AddConfig(AddConfig(c,
                "plugins.security.ssl.http.enabled", "true"),
                "plugins.security.ssl.http.pemcert_filepath", "tls-transport/tls.crt"),
                "plugins.security.ssl.http.pemkey_filepath", "tls-transport/tls.key"),
                "plugins.security.ssl.http.pemtrustedcas_filepath", "tls-http/ca.crt")
        ELSE c]

\* lines 117-128: extend opensearch.yml
ExtendConfig(L) ==
    LET c == L.controllerContext IN
    [L EXCEPT !.controllerContext =
        IF L.name = "transport" THEN
            AddConfig(AddConfig(AddConfig(AddConfig(c,
                "plugins.security.ssl.transport.pemcert_filepath", "tls-transport/tls.crt"),
                "plugins.security.ssl.transport.pemkey_filepath", "tls-transport/tls.key"),
                "plugins.security.ssl.transport.pemtrustedcas_filepath", "tls-transport/ca.crt"),
                "plugins.security.ssl.transport.enforce_hostname_verification", "false")
        ELSE IF L.name = "http" THEN
            AddConfig(AddConfig(AddConfig(AddConfig(c,
                "plugins.security.ssl.http.enabled", "true"),
                "plugins.security.ssl.http.pemcert_filepath", "tls-http/tls.crt"),
                "plugins.security.ssl.http.pemkey_filepath", "tls-http/tls.key"),
                "plugins.security.ssl.http.pemtrustedcas_filepath", "tls-http/ca.crt")
        ELSE c]

\* faulty variant: the relaxation directive is written before the trusted DNs
EpilogueRelaxesFirst(L) ==
    LET c == AddConfig(L.controllerContext,
                       "plugins.security.allow_unsafe_democertificates", "true")
        dnList == Join(L.nodesDn, "\",\"")
    IN  [L EXCEPT !.pc = "Done",
                  !.controllerContext =
                      IF Len(L.nodesDn) > 0
                      THEN AddConfig(c, "plugins.security.nodes_dn", "[\"" \o dnList \o "\"]")
                      ELSE c]

\* lines 39-45: the end of Reconcile
Epilogue(L) ==
    LET c == L.controllerContext
        dnList == Join(L.nodesDn, "\",\"")
        withDn == IF Len(L.nodesDn) > 0
                  THEN AddConfig(c, "plugins.security.nodes_dn", "[\"" \o dnList \o "\"]")
                  ELSE c
    IN  [L EXCEPT !.pc = "Done",
                  !.controllerContext =
                      AddConfig(withDn, "plugins.security.allow_unsafe_democertificates", "true")]

RECURSIVE HandleInterface(_, _, _)

\* faulty variant: Reconcile drops the error of the transport interface and
\* goes on with http
ReturnErrGoesOn(L, err) ==
    IF L.name = "transport"
    THEN HandleInterface("http", Tls.http, L)
    ELSE [L EXCEPT !.pc = "Aborted", !.err = err]

\* HandleInterface returns err and so does Reconcile (lines 34, 37)
ReturnErr(L, err) == [L EXCEPT !.pc = "Aborted", !.err = err]

\* HandleInterface(name) returns nil (line 129): Reconcile goes on (lines 33-45)
ReturnNil(L) ==
    IF L.name = "transport" THEN HandleInterface("http", Tls.http, L) ELSE Epilogue(L)

\* lines 108-112
MissingSecret(config) ==
    config.caSecret = <<>> \/ config.certSecret = <<>> \/ config.keySecret = <<>>

\* faulty variant: a missing secret reference is logged and the interface skipped
HandleInterfaceSkipsInvalid(name, config, L0) ==
    LET L == [L0 EXCEPT !.name = name, !.ca = NoCert, !.nodeCert = NoCert] IN
    IF config = <<>> THEN ReturnNil(L)
    ELSE IF config[1].generate THEN [L EXCEPT !.pc = "GetCA"]
    ELSE IF MissingSecret(config[1]) THEN ReturnNil(L)
    ELSE ReturnNil(ExtendConfig(MountExternal(L, config[1])))

\* faulty variant: the test of line 49 comes after the config was extended
HandleInterfaceSkipWritesConfig(name, config, L0) ==
    LET L == [L0 EXCEPT !.name = name, !.ca = NoCert, !.nodeCert = NoCert] IN
    IF config = <<>> THEN ReturnNil(ExtendConfig(L))
    ELSE IF config[1].generate THEN [L EXCEPT !.pc = "GetCA"]
    ELSE IF MissingSecret(config[1]) THEN ReturnErr(L, "missing secret in spec")
    ELSE ReturnNil(ExtendConfig(MountExternal(L, config[1])))

\* HandleInterface from its entry to its first client call or its return
HandleInterface(name, config, L0) ==
    LET L == [L0 EXCEPT !.name = name, !.ca = NoCert, !.nodeCert = NoCert] IN
    IF config = <<>> THEN ReturnNil(L)
    ELSE IF config[1].generate THEN [L EXCEPT !.pc = "GetCA"]
    ELSE IF MissingSecret(config[1]) THEN ReturnErr(L, "missing secret in spec")
    ELSE ReturnNil(ExtendConfig(MountExternal(L, config[1])))

\* faulty variant: without a policy the end of Reconcile is still run
ReconcileBodyNoEarlyReturn(L) ==
    IF instance.security = <<>> \/ instance.security[1].tls = <<>>
    THEN Epilogue(L)
    ELSE HandleInterface("transport", Tls.transport, [L EXCEPT !.nodesDn = Tls.nodesDn])

\* Reconcile from its entry (lines 25-33)
ReconcileBody(L) ==
    IF instance.security = <<>> \/ instance.security[1].tls = <<>>
    THEN [L EXCEPT !.pc = "Done"]
    ELSE HandleInterface("transport", Tls.transport, [L EXCEPT !.nodesDn = Tls.nodesDn])

(***************************************************************************)
(* The client (sigs.k8s.io/controller-runtime/pkg/client) against the API  *)
(* server: what r.Get and r.Create can return for an object key.  Create   *)
(* is create-if-absent; either call can fail with a transient error.       *)
(***************************************************************************)
GetResults(key) ==
    IF key \in DOMAIN store THEN {"Found", "StoreError"} ELSE {"NotFound", "StoreError"}

CreateResults(key) ==
    IF key \in DOMAIN store THEN {"AlreadyExists", "StoreError"} ELSE {"Ok", "StoreError"}

\* the outcomes of tls.GenerateCA and ca.CreateAndSignCertificate
GenerateResults == {"Ok", "Failed"}

(***************************************************************************)
(* HandleInterface between two client calls.  res is what the client call  *)
(* returned, gen the outcome of the key generation that may follow it and  *)
(* s the serial of the key pair it would generate.                         *)
(***************************************************************************)
\* faulty variant: the CA is generated whatever r.Get returned
AfterGetCAAlwaysGenerates(L0, res, gen, s) ==
    LET L == Called(L0, "Get", CaKey, res) IN
    IF gen # "Ok"
    THEN ReturnErr(Called(L, "GenerateCA", CaKey, gen), "GenerateCA failed")
    ELSE [Called(L, "GenerateCA", CaKey, gen) EXCEPT
            !.ca = GenerateCA(clusterName, s), !.pc = "CreateCA"]

\* faulty variant: the else branch of line 75 is missing, a found CA is not loaded
AfterGetCANotLoaded(L0, res, gen, s) ==
    LET L == Called(L0, "Get", CaKey, res) IN
    IF res # "Found" THEN
        IF gen # "Ok"
        THEN ReturnErr(Called(L, "GenerateCA", CaKey, gen), "GenerateCA failed")
        ELSE [Called(L, "GenerateCA", CaKey, gen) EXCEPT
                !.ca = GenerateCA(clusterName, s), !.pc = "CreateCA"]
    ELSE [L EXCEPT !.pc = "GetNode"]

\* lines 62-76: r.Get of the CA secret, tls.GenerateCA when it returns an error
AfterGetCA(L0, res, gen, s) ==
    LET L == Called(L0, "Get", CaKey, res) IN
    IF res # "Found" THEN
        IF gen # "Ok"
        THEN ReturnErr(Called(L, "GenerateCA", CaKey, gen), "GenerateCA failed")
        ELSE [Called(L, "GenerateCA", CaKey, gen) EXCEPT
                !.ca = GenerateCA(clusterName, s), !.pc = "CreateCA"]
    ELSE [L EXCEPT !.ca = CAFromSecret(store[CaKey]), !.pc = "GetNode"]

\* faulty variant: an already existing CA secret is tolerated, as the dashboard
\* reconciler tolerates it, and the pass goes on with the CA it generated
AfterCreateCATolerant(L0, res) ==
    LET L == Called(L0, "Create", CaKey, res) IN
    IF res \notin {"Ok", "AlreadyExists"} THEN ReturnErr(L, res)
    ELSE [L EXCEPT !.pc = "GetNode"]

\* faulty variant: the error of r.Create is logged and not returned
AfterCreateCAIgnoresError(L0, res) ==
    [Called(L0, "Create", CaKey, res) EXCEPT !.pc = "GetNode"]

\* faulty variant: a failed r.Create makes HandleInterface fetch the CA again
\* instead of returning
AfterCreateCARetries(L0, res) ==
    LET L == Called(L0, "Create", CaKey, res) IN
    IF res # "Ok" THEN [L EXCEPT !.pc = "GetCA"] ELSE [L EXCEPT !.pc = "GetNode"]

\* lines 70-73: r.Create of the CA secret
AfterCreateCA(L0, res) ==
    LET L == Called(L0, "Create", CaKey, res) IN
    IF res # "Ok" THEN ReturnErr(L, res) ELSE [L EXCEPT !.pc = "GetNode"]

\* faulty variant: the secret is mounted only in the branch that creates it
AfterGetNodeMountsOnCreate(L0, res, gen, s) ==
    LET L == Called(L0, "Get", NodeKey(L0.name), res) IN
    IF res # "Found" THEN
        IF gen # "Ok"
        THEN ReturnErr(Called(L, "CreateAndSignCertificate", NodeKey(L.name), gen),
                       "CreateAndSignCertificate failed")
        ELSE [Called(L, "CreateAndSignCertificate", NodeKey(L.name), gen) EXCEPT
                !.nodeCert = CreateAndSignCertificate(L.ca, clusterName, DnsNames, s),
                !.pc = "CreateNode"]
    ELSE ReturnNil(ExtendConfig(L))

\* lines 80-93 and 99-129: r.Get of the node secret, ca.CreateAndSignCertificate
\* when it returns an error
AfterGetNode(L0, res, gen, s) ==
    LET L == Called(L0, "Get", NodeKey(L0.name), res) IN
    IF res # "Found" THEN
        IF gen # "Ok"
        THEN ReturnErr(Called(L, "CreateAndSignCertificate", NodeKey(L.name), gen),
                       "CreateAndSignCertificate failed")
        ELSE [Called(L, "CreateAndSignCertificate", NodeKey(L.name), gen) EXCEPT
                !.nodeCert = CreateAndSignCertificate(L.ca, clusterName, DnsNames, s),
                !.pc = "CreateNode"]
    ELSE ReturnNil(ExtendConfig(MountGenerated(L)))

\* lines 94-129: r.Create of the node secret
AfterCreateNode(L0, res) ==
    LET L == Called(L0, "Create", NodeKey(L0.name), res) IN
    IF res # "Ok" THEN ReturnErr(L, res) ELSE ReturnNil(ExtendConfig(MountGenerated(L)))

\* the key pair of serial s was generated in the step that led to L
Generated(L, s) == L.ca.serial = s \/ L.nodeCert.serial = s

\* the pass goes on with locals L; a pass that returned nil is remembered
Continue(p, L) ==
    /\ pass' = [pass EXCEPT ![p] = L]
    /\ lastDone' = IF L.pc = "Done"
                   THEN <<[ctx0 |-> L.ctx0, out |-> L.controllerContext]>>
                   ELSE lastDone

\* r.Create(secret) returned Ok: the API server holds the secret
Stored(key, data) ==
    /\ store' = (key :> data) @@ store
    /\ created' = (key :> (IF key \in DOMAIN created THEN created[key] + 1 ELSE 1)) @@ created

(***************************************************************************)
(* The dashboard reconciler                                                *)
(* (opensearch-operator/controllers/dashboardController.go).  Its Reconcile *)
(* handles three objects in turn, each with r.Get and, when r.Get returns  *)
(* an error, r.Create.  dash.i is the object the pass has reached, dash.pc *)
(* one of NotStarted, Get (lines 38, 55, 74), Create (lines 42, 59, 77),   *)
(* Done (line 88) and Aborted (lines 47, 64, 82).  calls and store0 are    *)
(* history: the client calls of the pass and the store it started from.    *)
(***************************************************************************)
DashboardKinds == <<"Deployment", "ConfigMap", "Service">>

\* lines 36-37, 54, 72
deployName == instance.clusterName \o "-dashboards"
deployNamespace == instance.clusterName
cmName == "opensearch-dashboards"
serviceName == instance.serviceName \o "-dash-svc"

\* the object key of r.Get (lines 38, 55, 74)
DashboardKey(i) ==
    ObjectKey(<<deployName, cmName, serviceName>>[i], deployNamespace)

\* builders.NewDashboardsDeploymentForCR, NewDashboardsConfigMapForCR and
\* NewDashboardsSvcForCr: the object is built under the key that is fetched
NewDashboardsObject(i) == [kind |-> DashboardKinds[i], builtFor |-> instance.clusterName]

\* an object of the same key that somebody else created
ForeignObject(i) == [kind |-> DashboardKinds[i], builtFor |-> ""]

NewDashboardPass == [pc |-> "NotStarted", i |-> 1, err |-> "", calls |-> <<>>, store0 |-> <<>>]

DashboardCalled(d, op, res) ==
    [d EXCEPT !.calls = Append(@, [op |-> op, kind |-> DashboardKinds[d.i], res |-> res])]

\* the pass goes on with the next object, or returns nil after the last (line 88)
NextObject(d) ==
    IF d.i < Len(DashboardKinds) THEN [d EXCEPT !.pc = "Get", !.i = d.i + 1]
    ELSE [d EXCEPT !.pc = "Done"]

\* lines 38, 55, 74: r.Get; any error leads to r.Create
AfterGetDashboard(d0, res) ==
    LET d == DashboardCalled(d0, "Get", res) IN
    IF res # "Found" THEN [d EXCEPT !.pc = "Create"] ELSE NextObject(d)

\* faulty variant: the error of r.Create is printed and never returned
AfterCreateDashboardIgnoresError(d0, res) ==
    NextObject(DashboardCalled(d0, "Create", res))

\* lines 42-50, 59-67, 77-85: r.Create; an error other than already-exists is returned
AfterCreateDashboard(d0, res) ==
    LET d == DashboardCalled(d0, "Create", res) IN
    IF res # "Ok" /\ res # "AlreadyExists"
    THEN [d EXCEPT !.pc = "Aborted", !.err = res]
    ELSE NextObject(d)

(***************************************************************************)
(* The actions.                                                            *)
(***************************************************************************)
Init ==
    /\ instance \in Instances
    /\ store = <<>>
    /\ serial = 0
    /\ created = <<>>
    /\ lastDone = <<>>
    /\ faults = 0
    /\ dash = NewDashboardPass
    /\ pass = [p \in Passes |->
                [pc |-> "NotStarted", name |-> "", controllerContext |-> EmptyContext,
                 nodesDn |-> <<>>, ca |-> NoCert, nodeCert |-> NoCert, err |-> "",
                 calls |-> <<>>, ctx0 |-> EmptyContext, store0 |-> <<>>, prev |-> <<>>]]

\* the scheduler invokes a fresh pass: Reconcile up to its first client call
Reconcile(p) ==
    /\ pass[p].pc \in {"NotStarted", "Done", "Aborted"}
    /\ \E controllerContext \in InitialContexts :
           Continue(p, ReconcileBody(NewPass(controllerContext)))
    /\ UNCHANGED <<instance, store, serial, created>>

GetCA(p) ==
    /\ pass[p].pc = "GetCA"
    /\ \E res \in GetResults(CaKey), gen \in GenerateResults :
           LET L == AfterGetCA(pass[p], res, gen, serial + 1) IN
           /\ Generated(L, serial + 1) => serial < MaxSerial
           /\ serial' = IF Generated(L, serial + 1) THEN serial + 1 ELSE serial
           /\ Continue(p, L)
    /\ UNCHANGED <<instance, store, created>>

CreateCA(p) ==
    /\ pass[p].pc = "CreateCA"
    /\ \E res \in CreateResults(CaKey) :
           /\ IF res = "Ok" THEN Stored(CaKey, SecretDataCA(pass[p].ca))
                            ELSE UNCHANGED <<store, created>>
           /\ Continue(p, AfterCreateCA(pass[p], res))
    /\ UNCHANGED <<instance, serial>>

GetNode(p) ==
    /\ pass[p].pc = "GetNode"
    /\ \E res \in GetResults(NodeKey(pass[p].name)), gen \in GenerateResults :
           LET L == AfterGetNode(pass[p], res, gen, serial + 1) IN
           /\ Generated(L, serial + 1) => serial < MaxSerial
           /\ serial' = IF Generated(L, serial + 1) THEN serial + 1 ELSE serial
           /\ Continue(p, L)
    /\ UNCHANGED <<instance, store, created>>

CreateNode(p) ==
    /\ pass[p].pc = "CreateNode"
    /\ \E res \in CreateResults(NodeKey(pass[p].name)) :
           /\ IF res = "Ok"
              THEN Stored(NodeKey(pass[p].name), SecretData(pass[p].nodeCert, pass[p].ca))
              ELSE UNCHANGED <<store, created>>
           /\ Continue(p, AfterCreateNode(pass[p], res))
    /\ UNCHANGED <<instance, serial>>

\* one step of pass p
Step(p) ==
    \/ Reconcile(p)
    \/ GetCA(p)
    \/ CreateCA(p)
    \/ GetNode(p)
    \/ CreateNode(p)

\* The scheduler runs one pass at a time over a cluster (the single writer it
\* is required to be): a pass returns before the next one is invoked.
Next == Step("p1") /\ UNCHANGED <<dash, faults>>

Spec == Init /\ [][Next]_vars

\* Two passes over the same cluster interleave at their client calls.  Only
\* the policies that make a pass call the client are of interest here: each
\* interface is generated or absent, and one of them at least is generated.
InitConcurrent ==
    /\ Init
    /\ instance.namespace = "default"
    /\ instance.security # <<>> /\ instance.security[1].tls # <<>>
    /\ Tls.nodesDn = <<>>
    /\ {Tls.transport, Tls.http} \subseteq {<<>>, <<GeneratedInterface>>}
    /\ <<GeneratedInterface>> \in {Tls.transport, Tls.http}

NextConcurrent == (\E p \in Passes : Step(p)) /\ UNCHANGED <<dash, faults>>

SpecConcurrent == InitConcurrent /\ [][NextConcurrent]_vars

\* The scheduler keeps invoking passes, one at a time, and the errors of the
\* client and of the key generation are transient: a behaviour meets at most
\* MaxFaults of them.  A pass is one synchronous call, so a step that can be
\* taken is taken (weak fairness).
Transient == {"StoreError", "Failed"}

\* the transient errors of the step pass p has just taken
NewFaults(p) ==
    Cardinality({i \in DOMAIN pass'[p].calls :
                    i > Len(pass[p].calls) /\ pass'[p].calls[i].res \in Transient})

NextTransient ==
    /\ Step("p1")
    /\ faults' = faults + NewFaults("p1")
    /\ faults' <= MaxFaults
    /\ UNCHANGED dash

\* The store calls of a pass depend on the policy only through the kind of
\* each interface: absent, generated, external, or external with a missing
\* reference.  One policy of each kind is kept.
InitTransient ==
    /\ Init
    /\ instance.namespace = "default"
    /\ (instance.security # <<>> /\ instance.security[1].tls # <<>>) =>
          /\ Tls.nodesDn = <<>>
          /\ \A config \in {Tls.transport, Tls.http} :
                \/ config \in {<<>>, <<GeneratedInterface>>}
                \/ /\ config[1].caSecret \in {<<>>, <<[secretName |-> "byo-ca", key |-> <<>>]>>}
                   /\ config[1].caSecret = <<>> <=> config[1].certSecret = <<>>
                   /\ config[1].caSecret = <<>> <=> config[1].keySecret = <<>>
                   /\ \A ref \in {config[1].certSecret, config[1].keySecret} :
                         ref # <<>> => ref[1].key = <<>>

SpecTransient == InitTransient /\ [][NextTransient]_vars /\ WF_vars(NextTransient)

(***************************************************************************)
(* The passes of the dashboard reconciler over one cluster, one at a time. *)
(* Any of the three objects may exist before the first pass.               *)
(***************************************************************************)
InitDashboard ==
    /\ instance \in Instances
    /\ instance.namespace = "default" /\ instance.security = <<>>
    /\ \E present \in SUBSET DOMAIN DashboardKinds :
           store = [k \in {DashboardKey(i) : i \in present} |->
                       ForeignObject(CHOOSE i \in present : DashboardKey(i) = k)]
    /\ serial = 0
    /\ created = <<>>
    /\ lastDone = <<>>
    /\ faults = 0
    /\ dash = NewDashboardPass
    /\ pass = [p \in Passes |->
                [pc |-> "NotStarted", name |-> "", controllerContext |-> EmptyContext,
                 nodesDn |-> <<>>, ca |-> NoCert, nodeCert |-> NoCert, err |-> "",
                 calls |-> <<>>, ctx0 |-> EmptyContext, store0 |-> <<>>, prev |-> <<>>]]

\* the scheduler invokes DashboardReconciler.Reconcile
ReconcileDashboard ==
    /\ dash.pc \in {"NotStarted", "Done", "Aborted"}
    /\ dash' = [NewDashboardPass EXCEPT !.pc = "Get", !.store0 = store]
    /\ UNCHANGED <<store, created>>

GetDashboard ==
    /\ dash.pc = "Get"
    /\ \E res \in GetResults(DashboardKey(dash.i)) :
           dash' = AfterGetDashboard(dash, res)
    /\ UNCHANGED <<store, created>>

CreateDashboard ==
    /\ dash.pc = "Create"
    /\ \E res \in CreateResults(DashboardKey(dash.i)) :
           /\ IF res = "Ok" THEN Stored(DashboardKey(dash.i), NewDashboardsObject(dash.i))
                            ELSE UNCHANGED <<store, created>>
           /\ dash' = AfterCreateDashboard(dash, res)

NextDashboard ==
    /\ \/ ReconcileDashboard
       \/ GetDashboard
       \/ CreateDashboard
    /\ UNCHANGED <<instance, serial, pass, lastDone, faults>>

SpecDashboard == InitDashboard /\ [][NextDashboard]_vars

(***************************************************************************)
(* Vocabulary of the properties.                                           *)
(***************************************************************************)
HasPolicy == instance.security # <<>> /\ instance.security[1].tls # <<>>

InterfaceNames == {"transport", "http"}

ConfigOf(name) == IF name = "transport" THEN Tls.transport ELSE Tls.http

IsGenerate(name) == HasPolicy /\ ConfigOf(name) = <<GeneratedInterface>>

IsExternal(name) == HasPolicy /\ ConfigOf(name) # <<>> /\ ~ConfigOf(name)[1].generate

IsInvalid(name) == IsExternal(name) /\ MissingSecret(ConfigOf(name)[1])

Started(L) == L.pc # "NotStarted"

Returned(L) == L.pc \in {"Done", "Aborted"}

\* no client call of the pass met a transient error and no generation failed
FaultFree(L) == \A i \in DOMAIN L.calls : L.calls[i].res \notin {"StoreError", "Failed"}

IsCall(c, op, key, res) == c.op = op /\ c.key = key /\ c.res = res

HasCall(L, op, key, res) == \E i \in DOMAIN L.calls : IsCall(L.calls[i], op, key, res)

\* the secrets the pass has created
CreatedBy(L) == {L.calls[i].key : i \in {j \in DOMAIN L.calls :
                                            L.calls[j].op = "Create" /\ L.calls[j].res = "Ok"}}

NodeKeys == {NodeKey(n) : n \in InterfaceNames}

\* a stored node secret was signed by the CA with data caData and carries it
SignedBy(nodeData, caData) ==
    /\ nodeData["ca.crt"] = caData["ca.crt"]
    /\ ParseCert(nodeData["tls.crt"]).issuer = CAFromSecret(caData).serial

(***************************************************************************)
(* C1  Idempotence.  A pass that starts after a pass returned nil, from    *)
(* the same (empty) context and under the same policy, and meets no fault, *)
(* creates nothing, leaves the store as it found it, does not abort, and   *)
(* returns with the volumes, mounts and config of that earlier pass.       *)
(***************************************************************************)
C1_Idempotent ==
    \A p \in Passes :
        LET L == pass[p] IN
        (Started(L) /\ L.prev # <<>> /\ L.prev[1].ctx0 = L.ctx0 /\ FaultFree(L)) =>
            /\ \A i \in DOMAIN L.calls : L.calls[i].op = "Get"
            /\ store = L.store0
            /\ L.pc # "Aborted"
            /\ L.pc = "Done" => L.controllerContext = L.prev[1].out

\* a second pass returned nil after it fetched the secrets an earlier pass created
C1_Witness ==
    \E p \in Passes :
        LET L == pass[p] IN
        /\ L.pc = "Done" /\ L.prev # <<>> /\ FaultFree(L)
        /\ L.ctx0 = EmptyContext /\ L.prev[1].ctx0 = EmptyContext
        /\ HasCall(L, "Get", CaKey, "Found")
        /\ HasCall(L, "Get", NodeKey("transport"), "Found")
        /\ CaKey \in DOMAIN created
        /\ L.controllerContext.volumes # <<>>

(***************************************************************************)
(* C2  The CA comes first.  In a pass, r.Create of a node secret is called *)
(* only after the same call of HandleInterface fetched the CA secret or    *)
(* created it, and a stored node secret implies a stored CA secret.  A     *)
(* failed tls.GenerateCA or a failed r.Create of the CA secret is the last *)
(* thing the pass does: it is Aborted, it neither signed nor stored a node *)
(* certificate for the interface it was handling, and when that interface  *)
(* is transport it did nothing at all for http.                            *)
(***************************************************************************)
CaFailure(c) ==
    \/ c.op = "GenerateCA" /\ c.res # "Ok"
    \/ c.op = "Create" /\ c.key = CaKey /\ c.res # "Ok"

GenerationOf(c) ==
    c.op \in {"GenerateCA", "CreateAndSignCertificate", "Create"}

FoundIsReused(L) ==
    /\ \A i \in DOMAIN L.calls :
          (L.calls[i].op = "Get" /\ L.calls[i].res = "Found") =>
              \A j \in DOMAIN L.calls :
                  (j > i /\ L.calls[j].name = L.calls[i].name /\ GenerationOf(L.calls[j]))
                      => L.calls[j].key # L.calls[i].key
    /\ (L.pc \in {"GetNode", "CreateNode"} /\ HasCall(L, "Get", CaKey, "Found")
            /\ L.name = L.calls[Len(L.calls)].name
            /\ \A i \in DOMAIN L.calls :
                  L.calls[i].name = L.name => ~IsCall(L.calls[i], "Create", CaKey, "Ok"))
          => (CaKey \in DOMAIN store /\ L.ca = CAFromSecret(store[CaKey]) /\ L.ca # NoCert)

C3_CreatedOnceNeverModified ==
    /\ [](\A k \in DOMAIN created : created[k] <= 1)
    /\ [](\A p \in Passes : FoundIsReused(pass[p]))
    /\ [][\A k \in DOMAIN store : k \in DOMAIN store' /\ store'[k] = store[k]]_vars

\* every secret was created once and a later pass found and reused the CA
C3_Witness ==
    \E p \in Passes :
        LET L == pass[p] IN
        /\ \A k \in {CaKey} \cup NodeKeys : k \in DOMAIN created /\ created[k] = 1
        /\ HasCall(L, "Get", CaKey, "Found")
        /\ CaKey \in DOMAIN L.store0
        /\ L.ca = CAFromSecret(store[CaKey])
        /\ L.pc = "Done"

(***************************************************************************)
(* C4  Retry after partial progress.  A pass that starts when the CA       *)
(* secret exists and meets no fault neither generates nor creates a CA; it *)
(* creates only node secrets that were missing when it started, each       *)
(* signed by the CA it found; it aborts on nothing but a policy error, and *)
(* when it returns nil the node secret of every generated interface exists.*)
(***************************************************************************)
C4_RetryResumes ==
    \A p \in Passes :
        LET L == pass[p] IN
        (Started(L) /\ CaKey \in DOMAIN L.store0 /\ FaultFree(L)) =>
            /\ \A i \in DOMAIN L.calls :
                  /\ L.calls[i].op # "GenerateCA"
                  /\ L.calls[i].key = CaKey => L.calls[i].op = "Get"
                  /\ L.calls[i].op = "Create" =>
                        /\ L.calls[i].res = "Ok"
                        /\ L.calls[i].key \notin DOMAIN L.store0
            /\ \A k \in CreatedBy(L) :
                  k \in NodeKeys /\ k \in DOMAIN store /\ SignedBy(store[k], L.store0[CaKey])
            /\ L.pc = "Aborted" => L.err = "missing secret in spec"
            /\ L.pc = "Done" =>
                  \A n \in InterfaceNames : IsGenerate(n) => NodeKey(n) \in DOMAIN store

\* an earlier pass created the CA and no node secret; this pass created the
\* transport node secret and returned nil
C4_Witness ==
    \E p \in Passes :
        LET L == pass[p] IN
        /\ L.pc = "Done" /\ FaultFree(L)
        /\ DOMAIN L.store0 = {CaKey}
        /\ HasCall(L, "Get", CaKey, "Found")
        /\ HasCall(L, "Create", NodeKey("transport"), "Ok")
        /\ SignedBy(store[NodeKey("transport")], L.store0[CaKey])

(***************************************************************************)
(* C5  Bring-your-own validation.                                          *)
(* As claimed: when an interface has generate=false and lacks one of its   *)
(* three secret references, a pass (that meets no fault) fails with the    *)
(* configuration error and has created no secret, whatever the policy of   *)
(* the other interface.                                                    *)
(***************************************************************************)
C5_NoCreateInInvalidPass ==
    \A p \in Passes :
        LET L == pass[p] IN
        (Returned(L) /\ FaultFree(L) /\ \E n \in InterfaceNames : IsInvalid(n)) =>
            /\ L.pc = "Aborted"
            /\ L.err = "missing secret in spec"
            /\ CreatedBy(L) = {}

(***************************************************************************)
(* C5 as amended.  Handling the invalid interface fails with the           *)
(* configuration error and calls the client for nothing, and the pass      *)
(* never returns nil.  When the invalid interface is transport, or when it *)
(* is http and transport is not generated, the pass makes no client call   *)
(* at all; when it is http and transport is generated, transport is        *)
(* handled first, and all calls and creates of the pass are transport's.   *)
(***************************************************************************)
C5_InvalidInterfaceFails ==
    \A p \in Passes :
        LET L == pass[p] IN
        Started(L) =>
            /\ IsInvalid("transport") =>
                  /\ L.pc = "Aborted" /\ L.err = "missing secret in spec"
                  /\ L.calls = <<>> /\ store = L.store0
                  /\ L.controllerContext = L.ctx0
            /\ IsInvalid("http") =>
                  /\ L.pc # "Done"
                  /\ \A i \in DOMAIN L.calls :
                        L.calls[i].name = "transport" /\ L.calls[i].key # NodeKey("http")
                  /\ (L.pc = "Aborted" /\ FaultFree(L) /\ ~IsInvalid("transport")) =>
                        L.err = "missing secret in spec" /\ L.name = "http"
                  /\ ~IsGenerate("transport") => L.calls = <<>> /\ store = L.store0

\* http is invalid, transport is generated: the pass failed with the
\* configuration error after it created the CA and the transport node secret
C5_Witness ==
    \E p \in Passes :
        LET L == pass[p] IN
        /\ IsInvalid("http") /\ IsGenerate("transport")
        /\ L.pc = "Aborted" /\ L.err = "missing secret in spec"
        /\ CreatedBy(L) = {CaKey, NodeKey("transport")}

(***************************************************************************)
(* C6  The trusted-DN directive.                                           *)
(* As claimed: when a pass has returned nil, plugins.security.nodes_dn is  *)
(* in the config if and only if the transport interface is generated.      *)
(***************************************************************************)
NodesDnKey == "plugins.security.nodes_dn"

C6_NodesDnIffGeneratedTransport ==
    \A p \in Passes :
        LET L == pass[p] IN
        L.pc = "Done" =>
            (HasConfig(L.controllerContext, NodesDnKey) <=> IsGenerate("transport"))

(***************************************************************************)
(* C6 as amended.  When a pass has returned nil, the key is in the config  *)
(* if and only if the transport interface is generated or the policy's own *)
(* nodesDn list is not empty; its value lists the policy's DNs, followed   *)
(* by CN=<cluster> exactly when transport is generated.  An external or    *)
(* absent transport interface and a generated http interface add nothing;  *)
(* with a generated transport and an empty policy list the value is        *)
(* ["CN=<cluster>"].                                                       *)
(***************************************************************************)
C6_NodesDnDirective ==
    \A p \in Passes :
        LET L == pass[p]
            c == L.controllerContext
        IN
        L.pc = "Done" =>
            /\ HasConfig(c, NodesDnKey) <=>
                  (IsGenerate("transport") \/ (HasPolicy /\ Tls.nodesDn # <<>>))
            /\ (IsGenerate("transport") /\ Tls.nodesDn = <<>>) =>
                  /\ c.config[NodesDnKey] = "[\"CN=" \o clusterName \o "\"]"
                  /\ L.nodesDn = <<"CN=" \o clusterName>>
            /\ (IsGenerate("transport") /\ Tls.nodesDn = <<"CN=admin">>) =>
                  c.config[NodesDnKey] = "[\"CN=admin\",\"CN=" \o clusterName \o "\"]"
            /\ (HasPolicy /\ ~IsGenerate("transport") /\ Tls.nodesDn = <<"CN=admin">>) =>
                  c.config[NodesDnKey] = "[\"CN=admin\"]"

\* transport generated, http absent, no DN in the policy: ["CN=demo"]
C6_Witness ==
    \E p \in Passes :
        LET L == pass[p] IN
        /\ L.pc = "Done" /\ IsGenerate("transport") /\ Tls.http = <<>> /\ Tls.nodesDn = <<>>
        /\ clusterName = "demo"
        /\ HasConfig(L.controllerContext, NodesDnKey)
        /\ L.controllerContext.config[NodesDnKey] = "[\"CN=demo\"]"

(***************************************************************************)
(* C7  No policy, no effect.  Without a security policy or without a TLS   *)
(* policy a pass returns nil at once: no client call, no error, and the    *)
(* context and the store as they were (no volume, no mount, no config key, *)
(* plugins.security.allow_unsafe_democertificates included).               *)
(***************************************************************************)
C7_NoPolicyNoOp ==
    \A p \in Passes :
        LET L == pass[p] IN
        (~HasPolicy /\ Started(L)) =>
            /\ L.pc = "Done" /\ L.err = ""
            /\ L.calls = <<>>
            /\ store = L.store0
            /\ L.controllerContext = L.ctx0
            /\ ~HasConfig(L.controllerContext, "plugins.security.allow_unsafe_democertificates")
            /\ L.controllerContext.volumes = <<>> /\ L.controllerContext.volumeMounts = <<>>

\* a pass returned nil for a security policy that has no TLS policy
C7_Witness ==
    \E p \in Passes :
        /\ instance.security # <<>> /\ instance.security[1].tls = <<>>
        /\ pass[p].pc = "Done"

(***************************************************************************)
(* C8  Abort on the first error, transport before http.  The calls of a    *)
(* pass for transport all come before its calls for http.  A pass that     *)
(* fails while it handles transport is Aborted with the error of the step  *)
(* that failed, and has done nothing for http: no r.Get or r.Create of the *)
(* http node secret, no http volume or mount, no                           *)
(* plugins.security.ssl.http.* key.  A pass is Done only when both         *)
(* interfaces were handled without error.                                  *)
(***************************************************************************)
HttpConfigKeys ==
    {"plugins.security.ssl.http.enabled",
     "plugins.security.ssl.http.pemcert_filepath",
     "plugins.security.ssl.http.pemkey_filepath",
     "plugins.security.ssl.http.pemtrustedcas_filepath"}

VolumeNames(n) == {n \o "-cert", n \o "-ca", n \o "-key"}

VolumesOf(L, n) ==
    {L.controllerContext.volumes[i].name : i \in DOMAIN L.controllerContext.volumes}
        \cap VolumeNames(n)

MountsOf(L, n) ==
    {L.controllerContext.volumeMounts[i].name : i \in DOMAIN L.controllerContext.volumeMounts}
        \cap VolumeNames(n)

HttpUntouched(L) ==
    /\ \A i \in DOMAIN L.calls :
          L.calls[i].name # "http" /\ L.calls[i].key # NodeKey("http")
    /\ VolumesOf(L, "http") = {} /\ MountsOf(L, "http") = {}
    /\ \A k \in HttpConfigKeys : ~HasConfig(L.controllerContext, k)

\* the error of the step the pass failed in
ErrorOfLastStep(L) ==
    IF L.calls = <<>> \/ L.calls[Len(L.calls)].name # L.name
           \/ L.calls[Len(L.calls)].res \in {"Ok", "Found"}
    THEN "missing secret in spec"
    ELSE LET c == L.calls[Len(L.calls)] IN
         IF c.op = "GenerateCA" THEN "GenerateCA failed"
         ELSE IF c.op = "CreateAndSignCertificate" THEN "CreateAndSignCertificate failed"
         ELSE c.res

\* interface n was handled to its end
Handled(L, n) ==
    IF ConfigOf(n) = <<>> THEN TRUE
    ELSE /\ HasConfig(L.controllerContext, "plugins.security.ssl." \o n \o ".pemcert_filepath")
         /\ IF IsGenerate(n)
            THEN /\ NodeKey(n) \in DOMAIN store
                 /\ \/ HasCall(L, "Get", NodeKey(n), "Found")
                    \/ HasCall(L, "Create", NodeKey(n), "Ok")
                 /\ VolumesOf(L, n) = {n \o "-cert"}
            ELSE /\ ~IsInvalid(n)
                 /\ VolumesOf(L, n) = VolumeNames(n)

C8_AbortOnFirstError ==
    \A p \in Passes :
        LET L == pass[p] IN
        /\ \A i, j \in DOMAIN L.calls :
              (i < j /\ L.calls[i].name = "http") => L.calls[j].name = "http"
        /\ L.pc = "Aborted" =>
              /\ L.err # "" /\ L.err = ErrorOfLastStep(L)
              /\ L.name = "transport" => HttpUntouched(L)
              /\ L.name = "http" => Handled(L, "transport")
        /\ (L.pc = "Done" /\ HasPolicy) =>
              /\ L.err = ""
              /\ \A n \in InterfaceNames : Handled(L, n)

\* a pass failed to store the transport node secret; http was to be generated
C8_Witness ==
    \E p \in Passes :
        LET L == pass[p] IN
        /\ L.pc = "Aborted" /\ L.name = "transport" /\ IsGenerate("http")
        /\ HasCall(L, "Create", NodeKey("transport"), "StoreError")
        /\ L.err = "StoreError"

(***************************************************************************)
(* C9  A failed fetch aborts the pass.  As claimed: an r.Get that returns  *)
(* an error other than not-found is the last call of its pass, which is    *)
(* Aborted with that error; no generation and no r.Create follows it.      *)
(***************************************************************************)
C9_FetchErrorAborts ==
    \A p \in Passes :
        LET L == pass[p] IN
        \A i \in DOMAIN L.calls :
            (L.calls[i].op = "Get" /\ L.calls[i].res = "StoreError") =>
                /\ i = Len(L.calls)
                /\ L.pc = "Aborted"
                /\ L.err = "StoreError"

(***************************************************************************)
(* C10  Two passes bootstrap the CA.                                       *)
(* As claimed: r.Create of the CA secret succeeds at most once, and a pass *)
(* that saw no CA secret and whose r.Create of the CA secret returned      *)
(* already-exists is not aborted by it: it goes on with the stored CA.     *)
(***************************************************************************)
\* the last calls of the pass: r.Get of the CA secret returned not-found, a CA
\* was generated, and r.Create of the CA secret returned already-exists
CaConflict(L) ==
    /\ Len(L.calls) >= 3
    /\ IsCall(L.calls[Len(L.calls) - 2], "Get", CaKey, "NotFound")
    /\ IsCall(L.calls[Len(L.calls)], "Create", CaKey, "AlreadyExists")

C10_ConflictRetriedAsFetch ==
    /\ \A k \in DOMAIN created : created[k] <= 1
    /\ \A p \in Passes :
          LET L == pass[p] IN
          CaConflict(L) => (L.pc = "GetNode" /\ L.ca = CAFromSecret(store[CaKey]))

(***************************************************************************)
(* C10 as amended.  When two passes interleave, r.Create of the CA secret  *)
(* succeeds at most once and the stored CA never changes.  A pass whose    *)
(* r.Create returned already-exists is Aborted with that error: it made no *)
(* call for a node secret in that HandleInterface and makes no call after  *)
(* it (no retry inside the pass).  The CA it generated is used nowhere: a  *)
(* pass that is past the CA step holds the stored CA, and every stored     *)
(* node secret is signed by the stored CA.  A later pass fetches it.       *)
(***************************************************************************)
C10_ConflictAborts ==
    /\ [](\A k \in DOMAIN created : created[k] <= 1)
    /\ [][\A k \in DOMAIN store \cap {CaKey} : k \in DOMAIN store' /\ store'[k] = store[k]]_vars
    /\ [](\A p \in Passes :
            LET L == pass[p] IN
            /\ \A i \in DOMAIN L.calls :
                  IsCall(L.calls[i], "Create", CaKey, "AlreadyExists") =>
                      /\ i = Len(L.calls)
                      /\ L.pc = "Aborted" /\ L.err = "AlreadyExists"
                      /\ \A j \in DOMAIN L.calls : L.calls[j].key # NodeKey(L.calls[i].name)
            /\ L.pc \in {"GetNode", "CreateNode"} =>
                  CaKey \in DOMAIN store /\ L.ca = CAFromSecret(store[CaKey]))
    /\ [](\A k \in NodeKeys :
            k \in DOMAIN store => (CaKey \in DOMAIN store /\ SignedBy(store[k], store[CaKey])))

\* both passes saw no CA secret; one created it, the other one's create
\* returned already-exists
C10_Witness ==
    \E p, q \in Passes :
        /\ p # q
        /\ HasCall(pass[p], "Get", CaKey, "NotFound")
        /\ HasCall(pass[q], "Get", CaKey, "NotFound")
        /\ HasCall(pass[p], "Create", CaKey, "Ok")
        /\ CaConflict(pass[q])
        /\ pass[q].pc = "Aborted"
        /\ pass[q].ca # CAFromSecret(store[CaKey])

(***************************************************************************)
(* C11  DNS names and namespace, as stated: the certificate is requested   *)
(* for the names built from the namespace of the cluster resource, and the *)
(* secrets are fetched and created in that namespace, also when it differs *)
(* from the cluster name.                                                  *)
(***************************************************************************)
\* the names the certificate of cluster c would bear in namespace ns
CertificateNames(c, ns) ==
    {c, c \o "." \o ns, c \o "." \o ns \o ".svc", c \o "." \o ns \o ".svc.cluster.local"}

Range(seq) == {seq[i] : i \in DOMAIN seq}

C11_NamespaceOfResource ==
    \A p \in Passes :
        LET L == pass[p] IN
        /\ \A i \in DOMAIN L.calls : L.calls[i].key.namespace = instance.namespace
        /\ \A i \in DOMAIN L.calls :
              IsCall(L.calls[i], "Create", NodeKey(L.calls[i].name), "Ok") =>
                  Range(ParseCert(store[L.calls[i].key]["tls.crt"]).dnsNames)
                      = CertificateNames(instance.clusterName, instance.namespace)

(***************************************************************************)
(* C11  DNS names and namespace, amended.  The namespace HandleInterface   *)
(* works in is the one named after the cluster, whatever the namespace of  *)
(* the cluster resource: every r.Get and r.Create of a pass, and every     *)
(* stored secret, is in namespace <cluster>, and a node certificate that   *)
(* was issued and stored bears exactly the four names <cluster>,           *)
(* <cluster>.<cluster>, <cluster>.<cluster>.svc and                        *)
(* <cluster>.<cluster>.svc.cluster.local and the cluster name as its CN.   *)
(***************************************************************************)
C11_NamespaceIsClusterName ==
    /\ \A k \in DOMAIN store : k.namespace = instance.clusterName
    /\ \A k \in DOMAIN store \cap NodeKeys :
          LET cert == ParseCert(store[k]["tls.crt"]) IN
          /\ Len(cert.dnsNames) = 4
          /\ Range(cert.dnsNames) = CertificateNames(instance.clusterName, instance.clusterName)
          /\ instance.clusterName = "demo" =>
                cert.dnsNames = <<"demo", "demo.demo", "demo.demo.svc",
                                  "demo.demo.svc.cluster.local">>
          /\ cert.cn = instance.clusterName
    /\ \A p \in Passes :
        LET L == pass[p] IN
        \A i \in DOMAIN L.calls :
            /\ L.calls[i].key.namespace = instance.clusterName
            /\ L.calls[i].key.name \in
                  {instance.clusterName \o "-ca", instance.clusterName \o "-transport-cert",
                   instance.clusterName \o "-http-cert"}

\* a pass of a cluster resource that lives in another namespace than the one
\* named after the cluster issued and stored the certificates of both interfaces
C11_Witness ==
    \E p \in Passes :
        LET L == pass[p] IN
        /\ instance.namespace # instance.clusterName
        /\ L.pc = "Done"
        /\ HasCall(L, "Create", NodeKey("transport"), "Ok")
        /\ HasCall(L, "Create", NodeKey("http"), "Ok")
        /\ NodeKeys \subseteq DOMAIN store

(***************************************************************************)
(* C12  Mount planning, as stated: every interface that was handled        *)
(* successfully, generated or external, has three volumes and three mounts *)
(* in the context, one per file, each mount at tls-<interface>/<filename>. *)
(***************************************************************************)
\* HandleInterface(n) returned nil in the pass
Succeeded(L, n) ==
    /\ HasPolicy /\ Started(L)
    /\ IF n = "transport" THEN L.name = "http" \/ L.pc = "Done" ELSE L.pc = "Done"

\* the volumes and the mounts of interface n, in the order they were appended
VolumeSeq(L, n) ==
    LET Test(v) == v.name \in VolumeNames(n) IN SelectSeq(L.controllerContext.volumes, Test)

MountSeq(L, n) ==
    LET Test(v) == v.name \in VolumeNames(n) IN SelectSeq(L.controllerContext.volumeMounts, Test)

TrustFiles == {"ca.crt", "tls.key", "tls.crt"}

C12_ThreeMountsPerInterface ==
    \A p \in Passes : \A n \in InterfaceNames :
        LET L == pass[p] IN
        (Succeeded(L, n) /\ ConfigOf(n) # <<>>) =>
            /\ Len(VolumeSeq(L, n)) = 3
            /\ Len(MountSeq(L, n)) = 3
            /\ {MountSeq(L, n)[i].mountPath : i \in DOMAIN MountSeq(L, n)}
                  = {ConfigDir \o "tls-" \o n \o "/" \o f : f \in TrustFiles}

(***************************************************************************)
(* C12  Mount planning, amended.  An external interface that was handled   *)
(* successfully has three volumes <interface>-ca, -key, -cert, each from   *)
(* the secret its reference names, and three mounts of them at             *)
(* /usr/share/opensearch/config/tls-<interface>/ca.crt, tls.key, tls.crt.  *)
(* A generated interface has exactly one volume, <interface>-cert, from    *)
(* the secret <cluster>-<interface>-cert, and one mount of the whole       *)
(* secret (no sub-path) at the directory                                   *)
(* /usr/share/opensearch/config/tls-<interface>; the stored secret holds   *)
(* the three files ca.crt, tls.crt and tls.key.  A skipped interface has   *)
(* no volume and no mount.                                                 *)
(***************************************************************************)
C12_MountPlanning ==
    \A p \in Passes : \A n \in InterfaceNames :
        LET L == pass[p]
            dir == "/usr/share/opensearch/config/tls-" \o n
        IN
        Succeeded(L, n) =>
            IF ConfigOf(n) = <<>> THEN VolumeSeq(L, n) = <<>> /\ MountSeq(L, n) = <<>>
            ELSE IF ConfigOf(n)[1].generate THEN
                /\ VolumeSeq(L, n) =
                      <<[name |-> n \o "-cert",
                         secretName |-> instance.clusterName \o "-" \o n \o "-cert"]>>
                /\ MountSeq(L, n) =
                      <<[name |-> n \o "-cert", mountPath |-> dir, subPath |-> ""]>>
                /\ DOMAIN store[NodeKey(n)] = TrustFiles
            ELSE
                LET config == ConfigOf(n)[1] IN
                /\ VolumeSeq(L, n) =
                      <<[name |-> n \o "-ca", secretName |-> config.caSecret[1].secretName],
                        [name |-> n \o "-key", secretName |-> config.keySecret[1].secretName],
                        [name |-> n \o "-cert", secretName |-> config.certSecret[1].secretName]>>
                /\ Len(MountSeq(L, n)) = 3
                /\ \A i \in 1..3 :
                      /\ MountSeq(L, n)[i].name = VolumeSeq(L, n)[i].name
                      /\ MountSeq(L, n)[i].mountPath =
                            dir \o "/" \o <<"ca.crt", "tls.key", "tls.crt">>[i]

\* a pass returned nil with a generated transport and an external http interface
C12_Witness ==
    \E p \in Passes :
        LET L == pass[p] IN
        /\ L.pc = "Done" /\ IsGenerate("transport")
        /\ IsExternal("http") /\ ~IsInvalid("http")
        /\ Len(VolumeSeq(L, "transport")) = 1
        /\ Len(VolumeSeq(L, "http")) = 3

(***************************************************************************)
(* C13  A skipped interface has no effect.  For an interface the policy    *)
(* does not configure, HandleInterface returns nil at once: the pass makes *)
(* no client call for it, holds no volume, mount or config key of it, does *)
(* not fail in it, and its list of trusted DNs is what the other interface *)
(* made of it.  When transport is skipped the context is still the one the *)
(* pass was handed when http makes its first call; when http is skipped    *)
(* the pass returns in the step that finished transport; when both are     *)
(* skipped the pass makes no call and writes only the keys of the end of   *)
(* Reconcile.                                                              *)
(***************************************************************************)
TransportConfigKeys ==
    {"plugins.security.ssl.transport.pemcert_filepath",
     "plugins.security.ssl.transport.pemkey_filepath",
     "plugins.security.ssl.transport.pemtrustedcas_filepath",
     "plugins.security.ssl.transport.enforce_hostname_verification"}

ConfigKeysOf(n) == IF n = "transport" THEN TransportConfigKeys ELSE HttpConfigKeys

EpilogueKeys ==
    {"plugins.security.nodes_dn", "plugins.security.allow_unsafe_democertificates"}

C13_SkipHasNoEffect ==
    \A p \in Passes : \A n \in InterfaceNames :
        LET L == pass[p] IN
        (HasPolicy /\ Started(L) /\ ConfigOf(n) = <<>>) =>
            /\ \A i \in DOMAIN L.calls :
                  L.calls[i].name # n /\ L.calls[i].key # NodeKey(n)
            /\ VolumeSeq(L, n) = <<>> /\ MountSeq(L, n) = <<>>
            /\ DOMAIN L.controllerContext.config \cap ConfigKeysOf(n) = {}
            /\ L.pc = "Aborted" => L.name # n
            /\ n = "transport" =>
                  /\ L.nodesDn = Tls.nodesDn
                  /\ (L.name = "http" /\ L.calls = <<>> /\ ~Returned(L)) =>
                        L.controllerContext = L.ctx0
            /\ n = "http" =>
                  /\ L.nodesDn \in {Tls.nodesDn, Append(Tls.nodesDn, "CN=" \o clusterName)}
                  /\ Succeeded(L, "transport") => L.pc = "Done"
            /\ (Tls.transport = <<>> /\ Tls.http = <<>>) =>
                  /\ L.pc = "Done" /\ L.calls = <<>>
                  /\ L.controllerContext.volumes = <<>>
                  /\ L.controllerContext.volumeMounts = <<>>
                  /\ DOMAIN L.controllerContext.config \subseteq EpilogueKeys

\* transport is skipped and the pass went on to issue the http certificate
C13_Witness ==
    \E p \in Passes :
        LET L == pass[p] IN
        /\ HasPolicy /\ Tls.transport = <<>> /\ IsGenerate("http")
        /\ L.pc = "Done"
        /\ HasCall(L, "Create", NodeKey("http"), "Ok")
        /\ L.ctx0 = EmptyContext

(***************************************************************************)
(* C14  The relaxation directive.  A pass under a TLS policy that returned *)
(* nil wrote plugins.security.allow_unsafe_democertificates = "true",      *)
(* whatever the interfaces are (both skipped included), once, as its last  *)
(* config write: after the keys of the interfaces and directly after       *)
(* plugins.security.nodes_dn when that key is written.  A pass that has    *)
(* not returned nil, an Aborted one in particular, has not written it.     *)
(***************************************************************************)
RelaxKey == "plugins.security.allow_unsafe_democertificates"

C14_RelaxationIsLast ==
    \A p \in Passes :
        LET L == pass[p]
            w == L.controllerContext.written
        IN
        (HasPolicy /\ Started(L)) =>
            /\ L.pc = "Done" =>
                  /\ HasConfig(L.controllerContext, RelaxKey)
                  /\ L.controllerContext.config[RelaxKey] = "true"
                  /\ w # <<>> /\ w[Len(w)] = RelaxKey
                  /\ \A i \in 1..(Len(w) - 1) : w[i] # RelaxKey
                  /\ \A i \in DOMAIN w :
                        w[i] = NodesDnKey => i = Len(w) - 1
                  /\ \A i \in DOMAIN w :
                        w[i] \in TransportConfigKeys \cup HttpConfigKeys =>
                            /\ i < Len(w)
                            /\ \A j \in DOMAIN w : w[j] = NodesDnKey => i < j
            /\ L.pc # "Done" =>
                  /\ ~HasConfig(L.controllerContext, RelaxKey)
                  /\ \A i \in DOMAIN w : w[i] # RelaxKey

\* the directive closes a pass that wrote the keys of both interfaces and the
\* trusted DNs
C14_Witness ==
    \E p \in Passes :
        LET L == pass[p]
            w == L.controllerContext.written
        IN
        /\ HasPolicy /\ L.pc = "Done"
        /\ Len(w) = 10 /\ w[9] = NodesDnKey /\ w[10] = RelaxKey
        /\ IsGenerate("transport") /\ Tls.http # <<>>

(***************************************************************************)
(* C15  The config keys of an interface.  Once transport was handled       *)
(* successfully, generated or external, the config holds its three file    *)
(* paths under tls-transport/ and enforce_hostname_verification = false;   *)
(* once http was handled successfully it holds ssl.http.enabled = true and *)
(* the three file paths under tls-http/.  No key of a skipped interface is *)
(* ever written.                                                           *)
(***************************************************************************)
C15_InterfaceDirectives ==
    \A p \in Passes :
        LET L == pass[p]
            config == L.controllerContext.config
        IN
        (HasPolicy /\ Started(L)) =>
            /\ (Succeeded(L, "transport") /\ Tls.transport # <<>>) =>
                  /\ TransportConfigKeys \subseteq DOMAIN config
                  /\ config["plugins.security.ssl.transport.pemcert_filepath"]
                        = "tls-transport/tls.crt"
                  /\ config["plugins.security.ssl.transport.pemkey_filepath"]
                        = "tls-transport/tls.key"
                  /\ config["plugins.security.ssl.transport.pemtrustedcas_filepath"]
                        = "tls-transport/ca.crt"
                  /\ config["plugins.security.ssl.transport.enforce_hostname_verification"]
                        = "false"
            /\ (Succeeded(L, "http") /\ Tls.http # <<>>) =>
                  /\ HttpConfigKeys \subseteq DOMAIN config
                  /\ config["plugins.security.ssl.http.enabled"] = "true"
                  /\ config["plugins.security.ssl.http.pemcert_filepath"] = "tls-http/tls.crt"
                  /\ config["plugins.security.ssl.http.pemkey_filepath"] = "tls-http/tls.key"
                  /\ config["plugins.security.ssl.http.pemtrustedcas_filepath"]
                        = "tls-http/ca.crt"
            /\ \A n \in InterfaceNames :
                  ConfigOf(n) = <<>> =>
                      /\ DOMAIN config \cap ConfigKeysOf(n) = {}
                      /\ \A i \in DOMAIN L.controllerContext.written :
                            L.controllerContext.written[i] \notin ConfigKeysOf(n)

\* a pass returned nil with an external transport and a generated http interface
C15_Witness ==
    \E p \in Passes :
        LET L == pass[p] IN
        /\ L.pc = "Done"
        /\ IsExternal("transport") /\ IsGenerate("http")
        /\ TransportConfigKeys \cup HttpConfigKeys \subseteq DOMAIN L.controllerContext.config

(***************************************************************************)
(* C16  The source file of an external mount.  For each of the three       *)
(* references of an external interface that was handled successfully, the  *)
(* sub-path of its mount is the key of the reference when one is set and   *)
(* the default file name of its role otherwise (ca.crt for the CA, tls.key *)
(* for the key, tls.crt for the certificate); the mount path ends in the   *)
(* default file name whether a key is set or not.                          *)
(***************************************************************************)
\* the roles of the references: the suffix of the volume name, the default file
DefaultFile == [ca |-> "ca.crt", key |-> "tls.key", cert |-> "tls.crt"]

RefOf(config, role) ==
    IF role = "ca" THEN config.caSecret[1]
    ELSE IF role = "key" THEN config.keySecret[1] ELSE config.certSecret[1]

\* the mounts of the pass with the given name
MountsNamed(L, name) ==
    {L.controllerContext.volumeMounts[i] : i \in
        {j \in DOMAIN L.controllerContext.volumeMounts :
            L.controllerContext.volumeMounts[j].name = name}}

C16_SubPathIsKeyOrDefault ==
    \A p \in Passes : \A n \in InterfaceNames :
        LET L == pass[p] IN
        (Succeeded(L, n) /\ IsExternal(n)) =>
            \A role \in DOMAIN DefaultFile :
                LET ref == RefOf(ConfigOf(n)[1], role)
                    mounts == MountsNamed(L, n \o "-" \o role)
                IN
                /\ Cardinality(mounts) = 1
                /\ \A vm \in mounts :
                      /\ ref.key = <<>> => vm.subPath = DefaultFile[role]
                      /\ ref.key # <<>> => vm.subPath = ref.key[1]
                      /\ vm.mountPath = "/usr/share/opensearch/config/tls-" \o n \o "/"
                                            \o DefaultFile[role]

\* an external http interface whose CA reference names a key and whose key
\* reference names none was handled
C16_Witness ==
    \E p \in Passes :
        LET L == pass[p] IN
        /\ L.pc = "Done" /\ IsExternal("http") /\ ~IsInvalid("http")
        /\ Tls.http[1].caSecret[1].key = <<"custom.pem">>
        /\ Tls.http[1].keySecret[1].key = <<>>
        /\ [name |-> "http-ca",
            mountPath |-> "/usr/share/opensearch/config/tls-http/ca.crt",
            subPath |-> "custom.pem"] \in MountsNamed(L, "http-ca")
        /\ [name |-> "http-key",
            mountPath |-> "/usr/share/opensearch/config/tls-http/tls.key",
            subPath |-> "tls.key"] \in MountsNamed(L, "http-key")

(***************************************************************************)
(* C17  Node certificates match the stored CA.  In every state, however    *)
(* the passes interleave and whatever r.Get, r.Create and the generations  *)
(* return, every stored node secret was signed by the CA that is stored    *)
(* under <cluster>-ca and carries that CA as its ca.crt; a pass that is    *)
(* about to sign or to store a node certificate holds the stored CA; and   *)
(* the CA a pass generated but failed to create has signed no stored node  *)
(* certificate.                                                            *)
(***************************************************************************)
\* the pass generated a CA and r.Create of it returned an error
CaCreateFailed(L) ==
    \E i \in DOMAIN L.calls :
        L.calls[i].op = "Create" /\ L.calls[i].key = CaKey /\ L.calls[i].res # "Ok"

C17_NodeCertsMatchStoredCa ==
    /\ \A k \in NodeKeys \cap DOMAIN store :
          /\ CaKey \in DOMAIN store
          /\ store[k]["ca.crt"] = store[CaKey]["ca.crt"]
          /\ ParseCert(store[k]["tls.crt"]).issuer = ParseCert(store[CaKey]["ca.crt"]).serial
    /\ \A p \in Passes :
        LET L == pass[p] IN
        /\ L.pc \in {"GetNode", "CreateNode"} =>
              /\ CaKey \in DOMAIN store
              /\ L.ca = ParseCert(store[CaKey]["ca.crt"])
        /\ CaCreateFailed(L) =>
              /\ L.pc = "Aborted"
              /\ \A k \in NodeKeys \cap DOMAIN store :
                    ParseCert(store[k]["tls.crt"]).issuer # L.ca.serial

\* one pass lost the race for the CA secret, and the node certificates of both
\* interfaces are stored, signed by the CA of the other pass
C17_Witness ==
    \E p \in Passes :
        LET L == pass[p] IN
        /\ CaCreateFailed(L)
        /\ L.ca.serial # 0
        /\ NodeKeys \subseteq DOMAIN store
        /\ L.ca.serial # ParseCert(store[CaKey]["ca.crt"]).serial

(***************************************************************************)
(* C18  All or nothing per interface.  An interface that has not been      *)
(* handled to its end - it failed, it is between two client calls or it    *)
(* was not reached - has no volume, no mount and no config key in the      *)
(* context and has added no trusted DN.  An interface has contributions    *)
(* only after all its store calls succeeded: every r.Get of it returned    *)
(* the secret or not-found and every r.Create of it returned nil.  A pass  *)
(* that aborted in http holds exactly the volumes, mounts and config keys  *)
(* of transport, and neither plugins.security.nodes_dn nor                 *)
(* plugins.security.allow_unsafe_democertificates.                         *)
(***************************************************************************)
\* every store call the pass made for interface n succeeded
StoreCallsSucceeded(L, n) ==
    \A i \in DOMAIN L.calls :
        (L.calls[i].name = n /\ L.calls[i].op \in {"Get", "Create"}) =>
            L.calls[i].res \in {"Found", "NotFound", "Ok"}

NoContribution(L, n) ==
    /\ VolumeSeq(L, n) = <<>> /\ MountSeq(L, n) = <<>>
    /\ DOMAIN L.controllerContext.config \cap ConfigKeysOf(n) = {}
    /\ \A i \in DOMAIN L.controllerContext.written :
          L.controllerContext.written[i] \notin ConfigKeysOf(n)
    /\ n = "transport" => L.nodesDn = Tls.nodesDn

AllOrNothing(L) ==
    /\ \A n \in InterfaceNames :
          /\ ~Succeeded(L, n) => NoContribution(L, n)
          /\ ~NoContribution(L, n) => StoreCallsSucceeded(L, n)
    /\ (L.pc = "Aborted" /\ L.name = "http") =>
          /\ L.controllerContext.volumes = VolumeSeq(L, "transport")
          /\ L.controllerContext.volumeMounts = MountSeq(L, "transport")
          /\ Len(L.controllerContext.volumes) =
                IF Tls.transport = <<>> THEN 0 ELSE IF IsGenerate("transport") THEN 1 ELSE 3
          /\ DOMAIN L.controllerContext.config =
                IF Tls.transport = <<>> THEN {} ELSE TransportConfigKeys
          /\ L.nodesDn = IF IsGenerate("transport")
                         THEN Append(Tls.nodesDn, "CN=" \o clusterName) ELSE Tls.nodesDn

C18_AllOrNothing ==
    \A p \in Passes :
        (HasPolicy /\ Started(pass[p])) => AllOrNothing(pass[p])

\* the same, for the passes in which no r.Get returned a transient error
C18_ButForFetchErrors ==
    \A p \in Passes :
        (/\ HasPolicy /\ Started(pass[p])
         /\ \A i \in DOMAIN pass[p].calls :
               ~(pass[p].calls[i].op = "Get" /\ pass[p].calls[i].res = "StoreError"))
            => AllOrNothing(pass[p])

(***************************************************************************)
(* C19  Convergence under retry.  When the scheduler keeps invoking passes *)
(* and the errors of the store and of the key generation are transient,    *)
(* a policy without configuration error eventually sees a pass return nil; *)
(* once a pass has returned nil the CA secret and the node secret of every *)
(* generated interface are stored.  Every pass returns, nil or an error,   *)
(* after at most eight store calls (r.Get and r.Create of the CA secret    *)
(* and of the node secret, for each interface), and repeats none of its    *)
(* calls.                                                                  *)
(***************************************************************************)
NoConfigError == ~HasPolicy \/ \A n \in InterfaceNames : ~IsInvalid(n)

AllGeneratedStored ==
    \A n \in InterfaceNames :
        IsGenerate(n) => CaKey \in DOMAIN store /\ NodeKey(n) \in DOMAIN store

StoreCalls(L) == {i \in DOMAIN L.calls : L.calls[i].op \in {"Get", "Create"}}

NoInternalRetry(L) ==
    /\ Cardinality(StoreCalls(L)) <= 8
    /\ \A i, j \in DOMAIN L.calls :
          (/\ L.calls[i].op = L.calls[j].op
           /\ L.calls[i].key = L.calls[j].key
           /\ L.calls[i].name = L.calls[j].name) => i = j

C19_ConvergesUnderRetry ==
    /\ NoConfigError => <>(pass["p1"].pc = "Done" /\ AllGeneratedStored)
    /\ [](lastDone # <<>> => AllGeneratedStored)
    /\ [](\A p \in Passes : NoInternalRetry(pass[p]))
    /\ \A p \in Passes :
          (Started(pass[p]) /\ ~Returned(pass[p])) ~> Returned(pass[p])

\* after a transient error a later pass returned nil with all secrets stored
C19_Witness ==
    /\ faults > 0
    /\ pass["p1"].pc = "Done" /\ pass["p1"].store0 # <<>>
    /\ IsGenerate("transport") /\ IsGenerate("http")
    /\ {CaKey} \cup NodeKeys \subseteq DOMAIN store
    /\ Cardinality(StoreCalls(pass["p1"])) >= 4

(***************************************************************************)
(* C20  The dashboard pass.  DashboardReconciler.Reconcile handles the     *)
(* Deployment, then the ConfigMap, then the Service: its first call is     *)
(* r.Get of the Deployment, r.Create of an object directly follows an      *)
(* r.Get of that object that returned an error and happens in no other     *)
(* case, and r.Get of the next object directly follows a found object, a   *)
(* successful create or a create that returned already-exists.  A create   *)
(* that returned any other error is the last call of the pass, which       *)
(* returns that error.  No object that existed when the pass started is    *)
(* changed or removed, and when the pass has returned nil the three        *)
(* objects exist.                                                          *)
(***************************************************************************)
KindIndex(kind) == CHOOSE i \in DOMAIN DashboardKinds : DashboardKinds[i] = kind

DashboardKeys == {DashboardKey(i) : i \in DOMAIN DashboardKinds}

\* the call is the last one made for its object
Settles(c) ==
    \/ c.op = "Get" /\ c.res = "Found"
    \/ c.op = "Create" /\ c.res \in {"Ok", "AlreadyExists"}

C20_DashboardCreateIfAbsent ==
    LET calls == dash.calls IN
    /\ calls # <<>> => calls[1].op = "Get" /\ calls[1].kind = "Deployment"
    /\ \A j \in DOMAIN calls :
          /\ calls[j].op \in {"Get", "Create"}
          /\ (calls[j].op = "Create") =>
                /\ j > 1
                /\ calls[j - 1].op = "Get" /\ calls[j - 1].kind = calls[j].kind
                /\ calls[j - 1].res # "Found"
          /\ (calls[j].op = "Get" /\ j > 1) =>
                /\ Settles(calls[j - 1])
                /\ KindIndex(calls[j].kind) = KindIndex(calls[j - 1].kind) + 1
          /\ (calls[j].op = "Get" /\ calls[j].res # "Found") =>
                \/ j < Len(calls) /\ calls[j + 1].op = "Create"
                \/ j = Len(calls) /\ dash.pc = "Create"
          /\ (calls[j].op = "Create" /\ calls[j].res \notin {"Ok", "AlreadyExists"}) =>
                /\ j = Len(calls)
                /\ dash.pc = "Aborted" /\ dash.err = calls[j].res
          /\ (Settles(calls[j]) /\ j = Len(calls)) =>
                IF calls[j].kind = "Service" THEN dash.pc = "Done"
                ELSE dash.pc = "Get" /\ DashboardKinds[dash.i] =
                                           DashboardKinds[KindIndex(calls[j].kind) + 1]
          /\ (calls[j].op = "Create" /\ calls[j].res = "Ok") =>
                /\ DashboardKey(KindIndex(calls[j].kind)) \notin DOMAIN dash.store0
                /\ DashboardKey(KindIndex(calls[j].kind)) \in DOMAIN store
    /\ dash.pc = "Aborted" =>
          /\ calls # <<>> /\ calls[Len(calls)].op = "Create"
          /\ calls[Len(calls)].res \notin {"Ok", "AlreadyExists"}
    /\ dash.pc # "NotStarted" =>
          \A k \in DOMAIN dash.store0 : k \in DOMAIN store /\ store[k] = dash.store0[k]
    /\ dash.pc = "Done" =>
          /\ DashboardKeys \subseteq DOMAIN store
          /\ \A i \in DOMAIN DashboardKinds :
                \E j \in DOMAIN calls : calls[j].kind = DashboardKinds[i] /\ Settles(calls[j])

\* a pass returned nil after it found the Deployment somebody else had created,
\* met already-exists for the ConfigMap and created the Service
C20_Witness ==
    /\ dash.pc = "Done"
    /\ \E j \in DOMAIN dash.calls :
          dash.calls[j] = [op |-> "Get", kind |-> "Deployment", res |-> "Found"]
    /\ \E j \in DOMAIN dash.calls :
          dash.calls[j] = [op |-> "Create", kind |-> "ConfigMap", res |-> "AlreadyExists"]
    /\ \E j \in DOMAIN dash.calls :
          dash.calls[j] = [op |-> "Create", kind |-> "Service", res |-> "Ok"]
    /\ store[DashboardKey(1)] = ForeignObject(1)
    /\ store[DashboardKey(3)] = NewDashboardsObject(3)

====
